---- MODULE Spec2Model ----
(***************************************************************************)
(* Model of WBAugmenter/WBEmulator.py: the white-balance emulator          *)
(* (class WBEmulator, generateWbsRGB and the helpers changeWB, kernelP9,   *)
(* outOfGamutClipping, im2double).                                         *)
(*                                                                         *)
(* Numbers.  A float is modelled as an exact rational or NaN: a record     *)
(* [nan, n, d] with d > 0 and n/d in lowest terms.  Rounding is not        *)
(* modelled; NaN propagates as in IEEE-754 (any operation on NaN is NaN,   *)
(* 0/0 is NaN, every comparison with NaN is false).                        *)
(*                                                                         *)
(* Arrays are functions over 0-based index tuples, as in numpy.            *)
(***************************************************************************)
EXTENDS Integers, Sequences, FiniteSets, TLC

(***************************** program constants ***************************)
\* self.h: histogram bin count per axis
h == 60
\* self.K: number of nearest neighbours
K == 25
\* self.sigma = 0.25 = 1 / SigmaInv
SigmaInv == 4
\* len(self.wb_photo_finishing); also the block size (idH - 1) * 10 + ind
S == 10
\* resize threshold of rgbuv_hist: 450 * 450
MaxHistPixels == 202500

\* self.wb_photo_finishing
wb_photo_finishing ==
  << "_F_AS", "_F_CS", "_S_AS", "_S_CS", "_T_AS", "_T_CS", "_C_AS", "_C_CS",
     "_D_AS", "_D_CS" >>

(********************************* bounds **********************************)
\* images are MaxDim x MaxDim at most in the pixel-level pipeline
MaxDim == 2
\* requested counts below the catalogue size are drawn from -1 .. MaxSample
MaxSample == 2
\* the exemplar database holds 1, K, or K+1 .. K+MaxExtra exemplars
MaxExtra == 1

(********************************* numbers *********************************)
RECURSIVE Gcd(_, _)
Gcd(a, b) == IF b = 0 THEN a ELSE Gcd(b, a % b)

Abs(x) == IF x < 0 THEN -x ELSE x

NaN == [nan |-> TRUE, n |-> 0, d |-> 1]

\* the rational n/d (d # 0) in lowest terms with a positive denominator
Rat(n, d) ==
  LET g == Gcd(Abs(n), Abs(d))
      s == IF d < 0 THEN -1 ELSE 1
  IN  [nan |-> FALSE, n |-> s * (n \div g), d |-> s * (d \div g)]

Num(k) == [nan |-> FALSE, n |-> k, d |-> 1]

Add(a, b) ==
  IF a.nan \/ b.nan THEN NaN ELSE Rat(a.n * b.d + b.n * a.d, a.d * b.d)

Sub(a, b) ==
  IF a.nan \/ b.nan THEN NaN ELSE Rat(a.n * b.d - b.n * a.d, a.d * b.d)

Mul(a, b) == IF a.nan \/ b.nan THEN NaN ELSE Rat(a.n * b.n, a.d * b.d)

\* float division: 0/0 is NaN.  x/0 with x # 0 (an infinity) does not arise:
\* every divisor of the program is a sum that contains its dividend.
Div(a, b) ==
  IF a.nan \/ b.nan \/ b.n = 0 THEN NaN ELSE Rat(a.n * b.d, a.d * b.n)

\* a > b and a < b on floats: false when either side is NaN
Gt(a, b) == ~a.nan /\ ~b.nan /\ a.n * b.d > b.n * a.d
Lt(a, b) == ~a.nan /\ ~b.nan /\ a.n * b.d < b.n * a.d

ISqrt(k) == CHOOSE r \in 0..k : r * r = k

\* np.sqrt on the perfect squares the model's inputs produce
Sqrt(a) == IF a.nan THEN NaN ELSE Rat(ISqrt(a.n), ISqrt(a.d))

RECURSIVE Pow2(_)
Pow2(k) == IF k = 0 THEN 1 ELSE 2 * Pow2(k - 1)

\* np.log at the one argument the model's pixels produce: log(1) = 0
Log(a) == IF a.nan THEN NaN ELSE CASE a.n = a.d -> Num(0)

\* sum of f[x] over the finite set D
RECURSIVE SumOver(_, _)
SumOver(f, D) ==
  IF D = {} THEN Num(0)
  ELSE LET x == CHOOSE y \in D : TRUE IN Add(f[x], SumOver(f, D \ {x}))

\* sum of f[lo], ..., f[hi]
RECURSIVE SumRange(_, _, _)
SumRange(f, lo, hi) ==
  IF lo > hi THEN Num(0) ELSE Add(f[lo], SumRange(f, lo + 1, hi))

Min(Sx) == CHOOSE x \in Sx : \A y \in Sx : x <= y
Max(Sx) == CHOOSE x \in Sx : \A y \in Sx : x >= y

(********************************* images **********************************)
\* index set of an h x w x 3 array
Idx(hh, ww) == (0..(hh - 1)) \X (0..(ww - 1)) \X (0..2)

\* an array not yet assigned
NoImage == [h |-> 0, w |-> 0, px |-> [t \in {} |-> 0]]

\* cv2.cvtColor(I, COLOR_BGR2RGB) and COLOR_RGB2BGR: the channel axis reversed
cvtColor(im) ==
  [im EXCEPT !.px = [t \in Idx(im.h, im.w) |-> im.px[<<t[1], t[2], 2 - t[3]>>]]]

\* cv2.normalize(im.astype('float'), None, 0.0, 1.0, cv2.NORM_MINMAX):
\* (v - min) / (max - min) over the whole array; scale 0 when max = min
im2double(im) ==
  LET vals == {im.px[t] : t \in Idx(im.h, im.w)}
      lo == Min(vals)
      hi == Max(vals)
  IN  [im EXCEPT !.px = [t \in Idx(im.h, im.w) |->
         IF hi = lo THEN Num(0) ELSE Rat(im.px[t] - lo, hi - lo)]]

(******************************* parameters ********************************)
\* The four arrays np.load reads in __init__ are inputs.  A parameter bundle
\* is [N, feat, map, enc]: the number N of exemplars and the ids of the
\* feature table, of the mapping-function table and of the encoder.
\* Features have one component (F2 = 1), measured in the unit
\* u = sqrt(ln 2 / 8), which makes exp(-d^2 / (2 sigma^2)) a power of 1/2.

\* self.features: row e of the N x 1 matrix
features(p) ==
  [e \in 0..(p.N - 1) |->
     CASE p.feat = 0 -> 3
       [] p.feat = 1 -> 3 + (e % 3)
       [] p.feat = 2 -> IF e = 0 THEN 6 ELSE 3 + (e % 2)
       [] p.feat = 3 -> IF e < 2 THEN 3 ELSE 4]

\* the number of rows of self.mappingFuncs: S per exemplar
MappingRows(p) == p.N * S

\* self.mappingFuncs: row r of the (N * 10) table, a 9 x 3 block
mappingFuncs(p) ==
  [r \in 0..(MappingRows(p) - 1) |->
     [t \in (0..8) \X (0..2) |->
        CASE p.map = 0 -> IF t[1] = t[2] THEN 1 ELSE 0
          [] p.map = 1 -> ((r + t[1] + 2 * t[2]) % 4) - 1
          [] p.map = 2 -> r]]

\* flat position of hist[u, v, i] in encode's hist_reshaped: the transposed
\* layer read in Fortran order is the layer row by row; layers R, G, B follow
\* one another
FlatIndex(u, v, i) == i * h * h + u * h + v

\* the bin log(1) = 0 falls in
CentreBin == (32 * (h + 1)) \div 64

\* self.encoderBias: one value for every position
encoderBias(p) == IF p.enc = 0 THEN 0 ELSE 1

\* self.encoderWeights: the 10800 x 1 matrix, zero outside the listed rows
encoderWeights(p) ==
  IF p.enc = 0
  THEN [j \in {FlatIndex(CentreBin, CentreBin, i) : i \in 0..2} |-> 1]
  ELSE [j \in {FlatIndex(0, 0, 0), FlatIndex(CentreBin, CentreBin, 1)} |->
          IF j = 0 THEN -4 ELSE 2]

(******************************* rgbuv_hist ********************************)
\* shape of the array the histogram is computed on (lines 58-63)
HistShape(hh, ww) ==
  IF hh * ww > MaxHistPixels
  THEN \* floor(hh * sqrt(202500 / (hh * ww))) = floor(sqrt(202500 * hh / ww))
       LET newH == CHOOSE k \in 0..hh :
                     k * k * ww <= MaxHistPixels * hh
                     /\ (k + 1) * (k + 1) * ww > MaxHistPixels * hh
           newW == CHOOSE k \in 0..ww :
                     k * k * hh <= MaxHistPixels * ww
                     /\ (k + 1) * (k + 1) * hh > MaxHistPixels * ww
       IN  <<newH, newW>>
  ELSE <<hh, ww>>

\* cv2.resize(I, (newW, newH), interpolation=cv2.INTER_NEAREST)
resize(im, newW, newH) ==
  [h |-> newH, w |-> newW,
   px |-> [t \in Idx(newH, newW) |->
             im.px[<<Min({(t[1] * im.h) \div newH, im.h - 1}),
                     Min({(t[2] * im.w) \div newW, im.w - 1}), t[3]>>]]]

\* the local I of rgbuv_hist after the optional resize
HistImage(im) ==
  LET sz == HistShape(im.h, im.w)
  IN  IF im.h * im.w > MaxHistPixels THEN resize(im, sz[2], sz[1]) ELSE im

\* I[(I > 0).all(axis=2)]: the pixels whose three channels are positive
ValidPixels(im) ==
  {q \in (0..(im.h - 1)) \X (0..(im.w - 1)) :
     \A ch \in 0..2 : Gt(im.px[<<q[1], q[2], ch>>], Num(0))}

\* np.linalg.norm(I_reshaped, axis=1), carried in units of sqrt(3): each
\* layer is divided by its own sum, which cancels the unit
Iy(im, q) ==
  LET sq(ch) == Mul(im.px[<<q[1], q[2], ch>>], im.px[<<q[1], q[2], ch>>])
  IN  Sqrt(Div(Add(sq(0), Add(sq(1), sq(2))), Num(3)))

\* np.histogram2d's bin of x with bins=h and range
\* (-3.2 - eps/2, 3.2 - eps/2), eps = 6.4 / h; h (no bin) outside the range
BinOf(x) ==
  LET t == 10 * h * x.n + 32 * (h + 1) * x.d
      width == 64 * x.d
  IN  IF t < 0 \/ t > width * h THEN h
      ELSE IF t = width * h THEN h - 1 ELSE t \div width

\* the layer's two log-chromaticity coordinates of pixel q (lines 70-75)
Iu(im, q, i) ==
  LET r == IF i = 0 THEN <<1, 2>> ELSE IF i = 1 THEN <<0, 2>> ELSE <<0, 1>>
  IN  Log(Div(im.px[<<q[1], q[2], i>>], im.px[<<q[1], q[2], r[2]>>]))

Iv(im, q, i) ==
  LET r == IF i = 0 THEN <<1, 2>> ELSE IF i = 1 THEN <<0, 2>> ELSE <<0, 1>>
  IN  Log(Div(im.px[<<q[1], q[2], i>>], im.px[<<q[1], q[2], r[1]>>]))

\* rgbuv_hist: layer i is [fill, at]: `at` holds the bins that received
\* weight, every other bin of the layer holds `fill`
rgbuv_hist(I0) ==
  LET im == HistImage(I0)
      valid == ValidPixels(im)
      binOf(q, i) == <<BinOf(Iu(im, q, i)), BinOf(Iv(im, q, i))>>
      inRange(i) == {q \in valid : binOf(q, i)[1] < h /\ binOf(q, i)[2] < h}
      wt == [q \in valid |-> Iy(im, q)]
      acc(i, b) == SumOver(wt, {q \in inRange(i) : binOf(q, i) = b})
      norm_(i) == SumOver(wt, inRange(i))
  IN  [i \in 0..2 |->
        [fill |-> Sqrt(Div(Num(0), norm_(i))),
         at |-> [b \in {binOf(q, i) : q \in inRange(i)} |->
                   Sqrt(Div(acc(i, b), norm_(i)))]]]

\* hist[u, v, i]
HistAt(hist, u, v, i) ==
  IF <<u, v>> \in DOMAIN hist[i].at THEN hist[i].at[<<u, v>>] ELSE hist[i].fill

HistHasNaN(hist) ==
  \E i \in DOMAIN hist :
    hist[i].fill.nan \/ \E b \in DOMAIN hist[i].at : hist[i].at[b].nan

(********************************* encode **********************************)
\* np.dot(hist_reshaped - encoderBias.T, encoderWeights): a NaN anywhere in
\* the histogram makes the product NaN, also against a zero weight
encode(p, hist) ==
  LET W == encoderWeights(p)
      at(j) == HistAt(hist, (j % (h * h)) \div h, j % h, j \div (h * h))
      term == [j \in DOMAIN W |->
                 Mul(Sub(at(j), Num(encoderBias(p))), Num(W[j]))]
  IN  IF HistHasNaN(hist) THEN NaN ELSE SumOver(term, DOMAIN W)


(**************************** nearest neighbours ***************************)
\* D_sq (lines 101-103): ||f_e||^2 + ||q||^2 - 2 f_e . q for every exemplar e
D_sq(p, q) ==
  LET f == features(p)
  IN  [e \in DOMAIN f |->
         Sub(Add(Num(f[e] * f[e]), Mul(q, q)), Mul(Num(2 * f[e]), q))]

\* the order numpy sorts and partitions floats by: NaN after every number
LeqNaNLast(a, b) == b.nan \/ (~a.nan /\ a.n * b.d <= b.n * a.d)

\* the m-element subsets of the set T
SubsetsOfSize(T, m) ==
  {X \in {{f[j] : j \in 1..m} : f \in [1..m -> T]} : Cardinality(X) = m}

\* D.argpartition(kth, axis=0)[:kth], kth < N: any kth indices such that no
\* index left out has a smaller distance.  numpy does not say which of
\* several equal distances it keeps, nor in which order the kept ones come;
\* every choice is an outcome, listed here in ascending index order (the
\* order does not change anything computed from it).
ArgPartition(D, kth) ==
  LET all == DOMAIN D
      outs == {X \in SubsetsOfSize(all, Cardinality(all) - kth) :
                 \A a \in all \ X : \A b \in X : LeqNaNLast(D[a], D[b])}
      \* the k-th smallest index that is not in X
      kept(X) == [k \in 0..(kth - 1) |->
                    CHOOSE e \in k..(k + Cardinality(X)) :
                      e \notin X /\ Cardinality({x \in X : x < e}) = e - k]
  IN  {kept(X) : X \in outs}

\* np.exp at the arguments the model produces.  A number x of the model
\* stands for x * u^2 = x * ln(2) / 8 here, so exp(-8 k) stands for
\* exp(-k ln 2) = 2^(-k)
Exp(a) ==
  IF a.nan THEN NaN
  ELSE CASE a.d = 1 /\ a.n <= 0 /\ a.n % 8 = 0 -> Rat(1, Pow2((-a.n) \div 8))

\* lines 107-111: dH, the weights and their normalisation
blendWeights(D, idH) ==
  LET dH == [k \in DOMAIN idH |-> Sqrt(D[idH[k]])]
      twoSigmaSq == Rat(2, SigmaInv * SigmaInv)
      raw == [k \in DOMAIN idH |->
                Exp(Div(Sub(Num(0), Mul(dH[k], dH[k])), twoSigmaSq))]
      total == SumRange(raw, 0, K - 1)
  IN  [k \in DOMAIN idH |-> Div(raw[k], total)]

(***************************** mapping function ****************************)
\* numpy indexing of an axis of length len: a negative index counts from the
\* end
PyIndex(r, len) == IF r < 0 THEN r + len ELSE r

\* the row of mappingFuncs line 117 reads for neighbour e and style ind
RowIndex(e, ind, len) == PyIndex((e - 1) * S + ind, len)

\* the least common multiple of the denominators w[lo].d, ..., w[hi].d
RECURSIVE CommonDen(_, _, _)
CommonDen(w, lo, hi) ==
  IF lo > hi THEN 1
  ELSE LET rest == CommonDen(w, lo + 1, hi)
       IN  (w[lo].d * rest) \div Gcd(w[lo].d, rest)

\* sum of the integers f[lo], ..., f[hi]
RECURSIVE IntSumRange(_, _, _)
IntSumRange(f, lo, hi) ==
  IF lo > hi THEN 0 ELSE f[lo] + IntSumRange(f, lo + 1, hi)

\* lines 115-118: the weighted sum of the neighbours' rows (taken over the
\* weights' common denominator; NaN as soon as a weight is NaN);
\* reshape(9, 3, order="F") of the 1 x 9 x 3 sum keeps entry (j, c) at (j, c)
blendMapping(p, idH, weightsH, ind) ==
  LET M == mappingFuncs(p)
      len == MappingRows(p)
      nan == \E k \in DOMAIN weightsH : weightsH[k].nan
      den == CommonDen(weightsH, 0, K - 1)
      summed == [t \in (0..8) \X (0..2) |->
                   IF nan THEN NaN
                   ELSE Rat(IntSumRange(
                              [k \in DOMAIN idH |->
                                 weightsH[k].n * (den \div weightsH[k].d)
                                 * M[RowIndex(idH[k], ind, len)][t]],
                              0, K - 1), den)]
  IN  [t \in (0..8) \X (0..2) |->
         LET l == t[1] + 9 * t[2] IN summed[<<l % 9, l \div 9>>]]

(********************************* changeWB ********************************)
\* kernel(r, g, b) -> (r, g, b, r2, g2, b2, rg, rb, gb)
kernelP9(v) ==
  [j \in 0..8 |->
     CASE j = 0 -> v[0] [] j = 1 -> v[1] [] j = 2 -> v[2]
       [] j = 3 -> Mul(v[0], v[0]) [] j = 4 -> Mul(v[1], v[1])
       [] j = 5 -> Mul(v[2], v[2]) [] j = 6 -> Mul(v[0], v[1])
       [] j = 7 -> Mul(v[0], v[2]) [] j = 8 -> Mul(v[1], v[2])]

\* I[I > 1] = 1; I[I < 0] = 0, on one value
outOfGamutClipping(x) ==
  LET y == IF Gt(x, Num(1)) THEN Num(1) ELSE x
  IN  IF Lt(y, Num(0)) THEN Num(0) ELSE y

\* the same reshape in C order: entry (q, k) is the entry at C position 3 q + k
ReshapeRowsCOrder(im) ==
  [q \in 0..(im.h * im.w - 1) |->
     [k \in 0..2 |-> im.px[<<q \div im.w, q % im.w, k>>]]]

\* np.reshape(input, (input.size / 3, 3), order="F"): entry (q, k) of the
\* result is the entry of input at Fortran position q + (h * w) * k
ReshapeRows(im) ==
  [q \in 0..(im.h * im.w - 1) |->
     [k \in 0..2 |->
        LET l == q + im.h * im.w * k
        IN  im.px[<<l % im.h, (l \div im.h) % im.w, l \div (im.h * im.w)>>]]]

\* out.reshape(sz[0], sz[1], sz[2], order="F")
ReshapeImage(out, hh, ww) ==
  [h |-> hh, w |-> ww,
   px |-> [t \in Idx(hh, ww) |->
             LET l == t[1] + hh * t[2] + hh * ww * t[3]
             IN  out[l % (hh * ww)][l \div (hh * ww)]]]

\* np.dot(kernel_out, m) for one row of kernel_out
DotRow(kv, m) ==
  [c \in 0..2 |->
     SumRange([j \in 0..8 |-> Mul(kv[j], m[<<j, c>>])], 0, 8)]

changeWB(input, m) ==
  LET I_reshaped == ReshapeRows(input)
      out == [q \in DOMAIN I_reshaped |->
                LET raw == DotRow(kernelP9(I_reshaped[q]), m)
                IN  [c \in 0..2 |-> outOfGamutClipping(raw[c])]]
  IN  cvtColor(ReshapeImage(out, input.h, input.w))

(***************************** style selection *****************************)
\* wb_photo_finishing.index(x)
IndexOf(seq, x) == Min({j \in 1..Len(seq) : seq[j] = x}) - 1

\* a sampler that may draw the same position twice (rnd.choices)
SampleWithReplacement(population, k) ==
  {[j \in 1..k |-> population[f[j]]] : f \in [1..k -> 1..Len(population)]}

\* rnd.sample(population, k), 0 <= k <= len: every sequence of k elements
\* taken from k different positions of the population is an outcome
Sample(population, k) ==
  {[j \in 1..k |-> population[f[j]]] :
     f \in {g \in [1..k -> 1..Len(population)] :
              \A a, b \in 1..k : a # b => g[a] # g[b]}}

\* np.zeros((I.shape[0], I.shape[1], I.shape[2], n)): one slice per style
Zeros(hh, ww) == [h |-> hh, w |-> ww, px |-> [t \in Idx(hh, ww) |-> Num(0)]]


(********************************** inputs *********************************)
\* a uint8 BGR image of two grey levels lv = <<low, high>>: pixel (r, c) is
\* black, white or blue, chosen by pat = <<a, b, s>> as (a r + b c + s) mod 3
Image(hh, ww, lv, pat) ==
  [h |-> hh, w |-> ww,
   px |-> [t \in Idx(hh, ww) |->
             LET colour == (pat[1] * t[1] + pat[2] * t[2] + pat[3]) % 3
                 bright == colour = 1 \/ (colour = 2 /\ t[3] = 0)
             IN  IF bright THEN lv[2] ELSE lv[1]]]

Levels == {<<0, 255>>, <<100, 200>>}

ImagesAll ==
  {Image(hh, ww, lv, pat) :
     hh \in 1..MaxDim, ww \in 1..MaxDim, lv \in Levels,
     pat \in (0..1) \X (0..1) \X (0..2)}

\* a black image, a white-and-black one, a blue-and-white one
ImagesFew ==
  {Image(1, 1, <<0, 255>>, <<0, 0, 0>>), Image(1, 2, <<0, 255>>, <<0, 1, 0>>),
   Image(2, 1, <<100, 200>>, <<1, 0, 1>>)}

\* an image too large to hold pixel by pixel: its shape alone
Opaque(hh, ww) == [h |-> hh, w |-> ww, px |-> [t \in {} |-> 0]]

LargeShapes ==
  {<<450, 450>>, <<451, 450>>, <<450, 451>>, <<900, 900>>, <<1000, 250>>}

CountsAll == (-1..MaxSample) \cup {S, S + 1}

ParamsOf(Ns, feats, maps, encs) ==
  {[N |-> n, feat |-> f, map |-> m, enc |-> e] :
     n \in Ns, f \in feats, m \in maps, e \in encs}

ExemplarCounts == {1, K} \cup ((K + 1)..(K + MaxExtra))

(********************************** state **********************************)
VARIABLES
  params,         \* the loaded parameter bundle (self.features, ...)
  pc,             \* where generateWbsRGB stands
  err,            \* the exception that ended the call
  img,            \* argument I: the uint8 BGR image
  outNum,         \* argument outNum
  I,              \* the local I after cvtColor and im2double
  histSz,         \* shape of the array rgbuv_hist built the histogram from
  hist,           \* rgbuv_hist(I)
  feature,        \* encode(hist)
  wb_pf,          \* the selected style labels
  inds,           \* their catalogue indices
  idH,            \* the K neighbours
  weightsH,       \* their normalised weights
  mf,             \* the mapping function of each style done so far
  i,              \* the loop variable of line 112
  synthWBimages   \* the output slices synthWBimages[:, :, :, j]

vars ==
  <<params, pc, err, img, outNum, I, histSz, hist, feature, wb_pf, inds, idH,
    weightsH, mf, i, synthWBimages>>

Empty == [t \in {} |-> 0]

\* the state after WBEmulator() loaded one of the bundles P
InitWith(P) ==
  /\ params \in P
  /\ pc = "idle"
  /\ err = "none"
  /\ img = NoImage
  /\ outNum = 0
  /\ I = NoImage
  /\ histSz = <<0, 0>>
  /\ hist = Empty
  /\ feature = Num(0)
  /\ wb_pf = <<>>
  /\ inds = <<>>
  /\ idH = Empty
  /\ weightsH = Empty
  /\ mf = <<>>
  /\ i = 0
  /\ synthWBimages = <<>>

(********************************* actions *********************************)
\* a caller invokes generateWbsRGB(im, n)
Call(images, counts) ==
  /\ pc = "idle"
  /\ \E im \in images, n \in counts :
       /\ img' = im
       /\ outNum' = n
  /\ pc' = "assert"
  /\ UNCHANGED <<params, err, I, histSz, hist, feature, wb_pf, inds, idH,
                 weightsH, mf, i, synthWBimages>>

\* line 85: assert (outNum <= 10)
AssertOutNum ==
  /\ pc = "assert"
  /\ IF outNum <= 10
     THEN pc' = "convert" /\ err' = err
     ELSE pc' = "error" /\ err' = "AssertionError"
  /\ UNCHANGED <<params, img, outNum, I, histSz, hist, feature, wb_pf, inds,
                 idH, weightsH, mf, i, synthWBimages>>

\* lines 86-87: BGR to RGB, then im2double
Convert ==
  /\ pc = "convert"
  /\ I' = im2double(cvtColor(img))
  /\ pc' = "encode"
  /\ UNCHANGED <<params, err, img, outNum, histSz, hist, feature, wb_pf, inds,
                 idH, weightsH, mf, i, synthWBimages>>

\* line 88: feature = self.encode(self.rgbuv_hist(I))
Encode ==
  /\ pc = "encode"
  /\ histSz' = HistShape(I.h, I.w)
  /\ hist' = rgbuv_hist(I)
  /\ feature' = encode(params, hist')
  /\ pc' = "select"
  /\ UNCHANGED <<params, err, img, outNum, I, wb_pf, inds, idH, weightsH, mf,
                 i, synthWBimages>>

\* a selection that ignores the requested count
StylesIgnoringCount(n) == {wb_photo_finishing}

\* the style labels lines 89-97 may select for outNum = n (none: rnd.sample
\* raises ValueError for a negative n)
Styles(n) ==
  IF n < Len(wb_photo_finishing)
  THEN IF n < 0 THEN {} ELSE Sample(wb_photo_finishing, n)
  ELSE {wb_photo_finishing}

\* lines 89-99: the styles, their indices and the zero-filled output array
SelectStyles ==
  /\ pc = "select"
  /\ IF Styles(outNum) = {}
     THEN /\ pc' = "error"
          /\ err' = "ValueError"
          /\ UNCHANGED <<wb_pf, inds, synthWBimages>>
     ELSE /\ \E sel \in Styles(outNum) :
               /\ wb_pf' = sel
               /\ inds' = [j \in 1..Len(sel) |->
                             IndexOf(wb_photo_finishing, sel[j])]
               /\ synthWBimages' = [j \in 1..Len(sel) |-> Zeros(I.h, I.w)]
          /\ pc' = "knn"
          /\ err' = err
  /\ UNCHANGED <<params, img, outNum, I, histSz, hist, feature, idH, weightsH,
                 mf, i>>

\* lines 101-111: distances, the K nearest exemplars and their weights;
\* argpartition raises ValueError unless kth = K is below the length N
FindNeighbors ==
  /\ pc = "knn"
  /\ IF K >= params.N
     THEN /\ pc' = "error"
          /\ err' = "ValueError"
          /\ UNCHANGED <<idH, weightsH>>
     ELSE /\ \E ids \in ArgPartition(D_sq(params, feature), K) :
               /\ idH' = ids
               /\ weightsH' = blendWeights(D_sq(params, feature), ids)
          /\ pc' = "map"
          /\ err' = err
  /\ i' = 0
  /\ UNCHANGED <<params, img, outNum, I, histSz, hist, feature, wb_pf, inds,
                 mf, synthWBimages>>

\* lines 112-119: one pass of the loop over the selected styles
MapStyle ==
  /\ pc = "map"
  /\ i < Len(inds)
  /\ LET m == blendMapping(params, idH, weightsH, inds[i + 1])
     IN  /\ mf' = Append(mf, m)
         /\ synthWBimages' = [synthWBimages EXCEPT ![i + 1] = changeWB(I, m)]
  /\ i' = i + 1
  /\ UNCHANGED <<params, pc, err, img, outNum, I, histSz, hist, feature, wb_pf,
                 inds, idH, weightsH>>

\* line 120: return synthWBimages, wb_pf
Return ==
  /\ pc = "map"
  /\ i = Len(inds)
  /\ pc' = "returned"
  /\ UNCHANGED <<params, err, img, outNum, I, histSz, hist, feature, wb_pf,
                 inds, idH, weightsH, mf, i, synthWBimages>>

\* generateWbsRGB on an image of a large shape, followed by shape alone:
\* cvtColor and im2double keep the shape of I, rgbuv_hist resizes its own
\* local I only, np.zeros takes I.shape and changeWB reshapes to the shape of
\* its input
GenerateLarge ==
  /\ pc = "idle"
  /\ params.N > K
  /\ \E sz \in LargeShapes, n \in {1, S} :
       /\ img' = Opaque(sz[1], sz[2])
       /\ outNum' = n
       /\ I' = Opaque(sz[1], sz[2])
       /\ histSz' = HistShape(sz[1], sz[2])
       /\ \E sel \in Styles(n) :
            /\ wb_pf' = sel
            /\ inds' = [j \in 1..Len(sel) |->
                          IndexOf(wb_photo_finishing, sel[j])]
            /\ synthWBimages' = [j \in 1..Len(sel) |-> Opaque(I'.h, I'.w)]
            /\ i' = Len(sel)
  /\ pc' = "returned"
  /\ UNCHANGED <<params, err, hist, feature, idH, weightsH, mf>>

Steps ==
  \/ AssertOutNum
  \/ Convert
  \/ Encode
  \/ SelectStyles
  \/ FindNeighbors
  \/ MapStyle
  \/ Return

(****************************** specifications *****************************)
\* every image, one style per call
Init == InitWith(ParamsOf({K + 1}, {2}, {0, 1}, {0}))
Next == Call(ImagesAll, {1}) \/ Steps \/ GenerateLarge
Spec == Init /\ [][Next]_vars

\* every requested count
InitStyles == InitWith(ParamsOf({K + 1}, {2}, {1}, {0}))
NextStyles == Call(ImagesFew, CountsAll) \/ Steps
SpecStyles == InitStyles /\ [][NextStyles]_vars

\* every exemplar database
InitKnn == InitWith(ParamsOf(ExemplarCounts, 0..3, {2}, {0, 1}))
NextKnn == Call(ImagesFew, {1}) \/ Steps
SpecKnn == InitKnn /\ [][NextKnn]_vars


(********************************** claims *********************************)
Catalogue == {wb_photo_finishing[j] : j \in 1..Len(wb_photo_finishing)}

Started == pc # "idle"

\* the call got past style selection
Selected == pc \in {"knn", "map", "returned"}

\* the call got past the neighbour search
Blended == pc \in {"map", "returned"}

\* the image is held pixel by pixel
Explicit(im) == DOMAIN im.px # {}

\* C1: a requested count outside 1..10 is rejected before any computation:
\* the call stands at the assertion or has failed there, and neither the
\* converted image nor a histogram, a selection or an output array exists
C1_InvalidCountRejectedFirst ==
  (Started /\ outNum \notin 1..S) =>
     /\ pc \in {"assert", "error"}
     /\ pc = "error" => err = "AssertionError"
     /\ ~Explicit(I)
     /\ DOMAIN hist = {}
     /\ Len(wb_pf) = 0
     /\ Len(synthWBimages) = 0

\* no pixel of the input has its three channels strictly positive
Degenerate(im) ==
  /\ Explicit(im)
  /\ \A r \in 0..(im.h - 1), c \in 0..(im.w - 1) :
       \E ch \in 0..2 : im.px[<<r, c, ch>>] <= 0

ImageHasNaN(im) == \E t \in DOMAIN im.px : im.px[t].nan

\* C2: for an image without a pixel whose three channels are positive the
\* call never returns and no NaN histogram, feature, mapping matrix or
\* output image is produced
C2_DegenerateImageRaises ==
  (Started /\ Degenerate(img)) =>
     /\ pc # "returned"
     /\ ~HistHasNaN(hist)
     /\ ~feature.nan
     /\ \A j \in 1..Len(mf) : \A t \in DOMAIN mf[j] : ~mf[j][t].nan
     /\ \A j \in 1..Len(synthWBimages) : ~ImageHasNaN(synthWBimages[j])

\* C3: for a requested count in 1..10 the call selects exactly that many
\* labels and indices and allocates that many output slices, and when it
\* returns it has filled each of them
C3_OutputCountEqualsRequested ==
  (Selected /\ outNum \in 1..S) =>
     /\ Len(wb_pf) = outNum
     /\ Len(inds) = outNum
     /\ Len(synthWBimages) = outNum
     /\ pc = "returned" => (i = outNum /\ Len(mf) = outNum)

C3_Witness ==
  /\ pc = "returned"
  /\ outNum \in 2..(S - 1)
  /\ Len(synthWBimages) = outNum
  /\ Len(wb_pf) = outNum

\* C4: the selected labels are pairwise distinct members of the catalogue,
\* each index names its label, and a request for 10 selects the whole
\* catalogue
C4_LabelsDistinctFromCatalogue ==
  Selected =>
     /\ \A a, b \in 1..Len(wb_pf) : a # b => wb_pf[a] # wb_pf[b]
     /\ \A a \in 1..Len(wb_pf) :
          /\ wb_pf[a] \in Catalogue
          /\ wb_photo_finishing[inds[a] + 1] = wb_pf[a]
     /\ outNum = S =>
          /\ Len(wb_pf) = S
          /\ {wb_pf[a] : a \in 1..Len(wb_pf)} = Catalogue

C4_Witness ==
  /\ pc = "returned"
  /\ outNum = 2
  /\ Len(wb_pf) = 2
  /\ wb_pf[1] # wb_pf[2]
  /\ inds[1] > inds[2]

\* the mapping function the weights give when neighbour e reads row
\* e * 10 + s of the table
OwnRowMapping(j) ==
  LET M == mappingFuncs(params)
  IN  [t \in (0..8) \X (0..2) |->
         SumRange([k \in 0..(K - 1) |->
                     Mul(weightsH[k], Num(M[idH[k] * S + inds[j]][t]))],
                  0, K - 1)]

\* C5: with one exemplar the neighbour search does not fail, every
\* neighbour is exemplar 0, the weights of that exemplar add up to 1 and
\* each mapping matrix is the exemplar's own row for the style
C5_SingleExemplarBlends ==
  (Started /\ params.N = 1 /\ outNum \in 1..S) =>
     /\ pc # "error"
     /\ Blended =>
          /\ \A k \in 0..(K - 1) : idH[k] = 0
          /\ SumRange(weightsH, 0, K - 1) = Num(1)
          /\ \A j \in 1..Len(mf) :
               \A t \in DOMAIN mf[j] :
                 mf[j][t] = Num(mappingFuncs(params)[inds[j]][t])

\* C6: the K weights are numbers, none negative, and add up to 1
C6_WeightsConvex ==
  Blended =>
     /\ \A k \in 0..(K - 1) : ~weightsH[k].nan /\ weightsH[k].n >= 0
     /\ SumRange(weightsH, 0, K - 1) = Num(1)

\* C7: every value of every output slice lies in [0, 1]
C7_OutputsInUnitRange ==
  \A j \in 1..Len(synthWBimages) :
    \A t \in DOMAIN synthWBimages[j].px :
      LET x == synthWBimages[j].px[t]
      IN  ~x.nan /\ 0 <= x.n /\ x.n <= x.d

\* C8: neighbour e and style s read row e * 10 + s, a row of exemplar e's own
\* block, and each mapping matrix is the weighted sum of those rows
C8_OwnRowsBlended ==
  Blended =>
     \A j \in 1..Len(mf) :
       /\ \A k \in 0..(K - 1) :
            LET row == RowIndex(idH[k], inds[j], MappingRows(params))
            IN  row = idH[k] * S + inds[j] /\ row \div S = idH[k]
       /\ mf[j] = OwnRowMapping(j)

\* C9: the neighbours are K different exemplars, no exemplar left out is
\* nearer than a chosen one, and of two equally distant exemplars the one
\* with the lower index is chosen first
C9_LowestIndexTieBreak ==
  Blended =>
     LET D == D_sq(params, feature)
         chosen == {idH[k] : k \in 0..(K - 1)}
     IN  /\ Cardinality(chosen) = K
         /\ \A a \in chosen : \A b \in (DOMAIN D) \ chosen :
              /\ LeqNaNLast(D[a], D[b])
              /\ LeqNaNLast(D[b], D[a]) => a < b

\* the value the polynomial mapping m gives pixel (r, c) of im, channel ch
PixelMapped(im, m, r, c, ch) ==
  outOfGamutClipping(
    DotRow(kernelP9([k \in 0..2 |-> im.px[<<r, c, k>>]]), m)[ch])

====
